---- MODULE Spec2Model ----
(***************************************************************************)
(* Figment: the upload state holder (useFileUpload + validateFile), the    *)
(* generation state machine (useGenerateCode), the Workspace that wires    *)
(* them, and the /api/generate route behind them.                          *)
(***************************************************************************)
EXTENDS FiniteSets, Integers, Sequences, TLC

(***************************************************************************)
(* Bounds of the model.                                                    *)
(***************************************************************************)
\* file sizes MAX_SIZE+1 .. MAX_SIZE+MaxOver are enumerated
MaxOver == 2
\* createObjectURL is called at most MaxUrls times in one behaviour
MaxUrls == 3
\* generateFile is invoked at most MaxCalls times in one behaviour
MaxCalls == 2
\* the route is sent at most MaxRequests requests of its own in one behaviour
MaxRequests == 2

(***************************************************************************)
(* Values.  A File is a record of the attributes the code reads; null for  *)
(* a string-or-null state is the value null, for File-or-null nullFile.    *)
(***************************************************************************)
null == "null"
nullFile == [name |-> "null"]

\* src/features/upload/utils/validateFile.ts
ALLOWED_FILE_TYPES == {"image/png", "image/jpeg", "image/webp"}
MAX_SIZE == 10 * 1024 * 1024

MSG_TYPE == "File must be an image (png, jpg, webp)"
MSG_SIZE == "File must be under 10MB"

\* a bug validateFile could have: the size test first, and >= for >
validateFile_sizeFirst(f) ==
    CASE f.size >= MAX_SIZE -> [valid |-> FALSE, error |-> MSG_SIZE]
      [] f.type \notin ALLOWED_FILE_TYPES -> [valid |-> FALSE, error |-> MSG_TYPE]
      [] OTHER -> [valid |-> TRUE]

\* a bug validateFile could have: the size test is missing
validateFile_noSize(f) ==
    CASE f.type \notin ALLOWED_FILE_TYPES -> [valid |-> FALSE, error |-> MSG_TYPE]
      [] OTHER -> [valid |-> TRUE]

\* switch(true): the first case whose test is true returns
validateFile(f) ==
    CASE f.type \notin ALLOWED_FILE_TYPES -> [valid |-> FALSE, error |-> MSG_TYPE]
      [] f.size > MAX_SIZE -> [valid |-> FALSE, error |-> MSG_SIZE]
      [] OTHER -> [valid |-> TRUE]

\* the MIME types and sizes the validator is exercised on
FileTypes == ALLOWED_FILE_TYPES \cup {"image/gif", "text/plain", ""}
FileSizes == {0, 1, 1024, MAX_SIZE - 1, 11 * 1024 * 1024} \cup (MAX_SIZE .. MAX_SIZE + MaxOver)
Files == [name : {"file"}, type : FileTypes, size : FileSizes]

\* the files a user selects or drops in the stateful specifications
SelectableFiles ==
    { [name |-> "test.png",  type |-> "image/png",  size |-> 1024],
      [name |-> "empty.png", type |-> "image/png",  size |-> 0],
      [name |-> "edge.webp", type |-> "image/webp", size |-> MAX_SIZE],
      [name |-> "big.jpg",   type |-> "image/jpeg", size |-> MAX_SIZE + 1],
      [name |-> "notes.txt", type |-> "text/plain", size |-> 1],
      [name |-> "huge.gif",  type |-> "image/gif",  size |-> MAX_SIZE + MaxOver] }

(***************************************************************************)
(* State.                                                                  *)
(***************************************************************************)
VARIABLES
    arg, result,                  \* validateFile's argument and its return value
    file, preview, uploadError,   \* useFileUpload: file, preview, error
    created, revoked,             \* the browser's object URLs: created, revoked
    wsFile,                       \* Workspace: file
    prompt,                       \* PromptInput: prompt
    status, error, code,          \* useGenerateCode: status, error, code
    calls,                        \* the invocations of generateFile, in order
    history,                      \* the values status has taken, in order
    apiKey,                       \* process.env.GOOGLE_AI_API_KEY
    module,                       \* lib/gemini: unloaded, loaded or failed
    reqs,                         \* the requests sent to the route directly
    last                          \* the last operation and what it was given

vars == <<arg, result, file, preview, uploadError, created, revoked,
          wsFile, prompt, status, error, code, calls, history,
          apiKey, module, reqs, last>>

routeVars == <<apiKey, module, reqs>>

noResult == [valid |-> FALSE, error |-> null]
noProvider == [kind |-> "none"]
noOutcome == [kind |-> "none"]
\* nothing has been handed to model.generateContent
noSent == [prompt |-> "undefined"]
noOp == [op |-> "init", file |-> nullFile, prePreview |-> null, preError |-> null,
         call |-> 0, provider |-> noProvider, outcome |-> noOutcome, sent |-> noSent]

\* URL.createObjectURL returns a URL it has not returned before
createObjectURL(urls) == "blob:" \o ToString(Cardinality(urls) + 1)

uploadVars == <<file, preview, uploadError, created, revoked>>

InitUpload ==
    /\ file = nullFile
    /\ preview = null
    /\ uploadError = null
    /\ created = {}
    /\ revoked = {}

genVars == <<wsFile, prompt, status, error, code, calls, history>>

\* useState('idle'), useState(null), useState(null); Workspace useState(null);
\* PromptInput useState('')
InitGen ==
    /\ wsFile = nullFile
    /\ prompt = ""
    /\ status = "idle"
    /\ error = null
    /\ code = null
    /\ calls = <<>>
    /\ history = <<"idle">>

\* the server has started with its key and lib/gemini has loaded
InitServer ==
    /\ apiKey = "secret"
    /\ module = "loaded"
    /\ reqs = <<>>

(***************************************************************************)
(* validateFile as a specification of its own.                             *)
(***************************************************************************)
InitValidate ==
    /\ arg \in Files
    /\ result = noResult
    /\ InitUpload
    /\ InitGen
    /\ InitServer
    /\ last = noOp

Validate ==
    /\ result = noResult
    /\ result' = validateFile(arg)
    /\ last' = [noOp EXCEPT !.op = "validateFile", !.file = arg]
    /\ UNCHANGED <<routeVars, arg, uploadVars, genVars>>

NextArg ==
    /\ result # noResult
    /\ arg' \in Files
    /\ result' = noResult
    /\ UNCHANGED <<routeVars, last, uploadVars, genVars>>

NextValidate == Validate \/ NextArg

SpecValidate == InitValidate /\ [][NextValidate]_vars

(***************************************************************************)
(* useFileUpload.                                                          *)
(***************************************************************************)
\* a bug handleFileSelect could have: the previous preview is not revoked
\* and a stale error is kept
handleFileSelect_keepsOld(f) ==
    LET r == validateFile(f) IN
    /\ r.valid => Cardinality(created) < MaxUrls
    /\ IF r.valid
         THEN /\ file' = f
              /\ preview' = createObjectURL(created)
              /\ created' = created \cup {createObjectURL(created)}
              /\ UNCHANGED <<revoked, uploadError>>
         ELSE /\ uploadError' = r.error
              /\ UNCHANGED <<file, preview, created, revoked>>

\* a bug handleFileSelect could have: a rejected file resets the selection
handleFileSelect_resets(f) ==
    LET r == validateFile(f) IN
    /\ r.valid => Cardinality(created) < MaxUrls
    /\ revoked' = IF r.valid /\ preview # null THEN revoked \cup {preview} ELSE revoked
    /\ IF r.valid
         THEN /\ file' = f
              /\ preview' = createObjectURL(created)
              /\ created' = created \cup {createObjectURL(created)}
              /\ uploadError' = null
         ELSE /\ uploadError' = r.error
              /\ file' = nullFile
              /\ preview' = null
              /\ UNCHANGED created

\* a bug handleFileSelect could have: the preview is revoked before the
\* validation result is looked at
handleFileSelect_revokesAlways(f) ==
    LET r == validateFile(f) IN
    /\ r.valid => Cardinality(created) < MaxUrls
    /\ revoked' = IF preview # null THEN revoked \cup {preview} ELSE revoked
    /\ IF r.valid
         THEN /\ file' = f
              /\ preview' = createObjectURL(created)
              /\ created' = created \cup {createObjectURL(created)}
              /\ uploadError' = null
         ELSE /\ uploadError' = r.error
              /\ UNCHANGED <<file, preview, created>>

\* a bug handleFileSelect could have: setFile(file) comes before the
\* validation result is looked at
handleFileSelect_setsFileFirst(f) ==
    LET r == validateFile(f) IN
    /\ r.valid => Cardinality(created) < MaxUrls
    /\ revoked' = IF r.valid /\ preview # null THEN revoked \cup {preview} ELSE revoked
    /\ file' = f
    /\ IF r.valid
         THEN /\ preview' = createObjectURL(created)
              /\ created' = created \cup {createObjectURL(created)}
              /\ uploadError' = null
         ELSE /\ uploadError' = r.error
              /\ UNCHANGED <<preview, created>>

\* handleFileSelect(file): validate; revoke the old preview of an accepted
\* file; install file, preview and a null error, or else set the error
handleFileSelect(f) ==
    LET r == validateFile(f) IN
    /\ r.valid => Cardinality(created) < MaxUrls
    /\ revoked' = IF r.valid /\ preview # null THEN revoked \cup {preview} ELSE revoked
    /\ IF r.valid
         THEN /\ file' = f
              /\ preview' = createObjectURL(created)
              /\ created' = created \cup {createObjectURL(created)}
              /\ uploadError' = null
         ELSE /\ uploadError' = r.error
              /\ UNCHANGED <<file, preview, created>>

\* a bug clearFile could have: the error is cleared with the file
clearFile_clearsError ==
    /\ file' = nullFile
    /\ preview' = null
    /\ uploadError' = null
    /\ UNCHANGED <<created, revoked>>

\* clearFile(): setFile(null); setPreview(null)
clearFile ==
    /\ file' = nullFile
    /\ preview' = null
    /\ UNCHANGED <<uploadError, created, revoked>>

InitUploadSpec ==
    /\ arg = nullFile
    /\ result = noResult
    /\ InitUpload
    /\ InitGen
    /\ InitServer
    /\ last = noOp

Select ==
    \E f \in SelectableFiles :
        /\ handleFileSelect(f)
        /\ last' = [noOp EXCEPT !.op = "handleFileSelect", !.file = f,
                                !.prePreview = preview, !.preError = uploadError]
        /\ UNCHANGED <<routeVars, arg, result, genVars>>

Clear ==
    /\ clearFile
    /\ last' = [noOp EXCEPT !.op = "clearFile",
                            !.prePreview = preview, !.preError = uploadError]
    /\ UNCHANGED <<routeVars, arg, result, genVars>>

NextUpload == Select \/ Clear

SpecUpload == InitUploadSpec /\ [][NextUpload]_vars

(***************************************************************************)
(* The server side: buildPrompt, generateCodeFromImage, POST.              *)
(***************************************************************************)
undefined == "undefined"

BASE_PROMPT ==
    "You are an expert React developer. Analyze this design screenshot and generate a React component.\n\nRequirements:\n- Use React 19 with functional components\n- Use TypeScript with proper types\n- Use Tailwind CSS for styling\n- Make it responsive\n- Follow accessibility best practices\n- Use semantic HTML\n\nOutput ONLY the code, no explanations or markdown code blocks."

\* !x for a string-or-undefined x
Falsy(x) == x = undefined \/ x = ""

\* a bug buildPrompt could have: the join of the earlier generateCodeFromImage
buildPrompt_additionalInstructions(message) ==
    IF Falsy(message) THEN BASE_PROMPT
                      ELSE BASE_PROMPT \o "\n\nAdditional instructions: " \o message

\* if(!message) return BASE_PROMPT; return `${BASE_PROMPT} ${message}`
buildPrompt(message) ==
    IF Falsy(message) THEN BASE_PROMPT ELSE BASE_PROMPT \o " " \o message

\* a bug generateCodeFromImage could have: another fixed MIME type
generateContentArgs_jpeg(image, p) ==
    [prompt |-> buildPrompt(p),
     inlineData |-> [data |-> image, mimeType |-> "image/jpeg"]]

\* what generateCodeFromImage hands to model.generateContent
generateContentArgs(image, p) ==
    [prompt |-> buildPrompt(p),
     inlineData |-> [data |-> image, mimeType |-> "image/png"]]

\* what the provider call does: it returns text, or it throws
Texts == {"", "<A/>"}
ProviderErrors == {"quota exceeded", "socket hang up"}
ProviderOutcomes ==
    [kind : {"text"}, text : Texts] \cup [kind : {"throw"}, message : ProviderErrors]

\* the JSON text null as request.json() returns it: reading .image of it throws
jsonNull == [parsed |-> TRUE, isNull |-> TRUE]

\* the body throws before the image is tested: request.json() rejects, or
\* body is null
BodyThrows(body) == ~body.parsed \/ body = jsonNull

\* a bug POST could have: the caught error's message is relayed
POST_relaysMessage(body, po) ==
    CASE BodyThrows(body) ->
            [status |-> 500, body |-> [success |-> FALSE,
                error |-> [code |-> 500, message |-> "Unexpected end of JSON input"]]]
      [] Falsy(body.image) ->
            [status |-> 400, body |-> [success |-> FALSE,
                error |-> [code |-> 400, message |-> "Image is required"]]]
      [] po.kind = "text" ->
            [status |-> 200, body |-> [success |-> TRUE,
                data |-> [generatedCode |-> po.text]]]
      [] OTHER ->
            [status |-> 500, body |-> [success |-> FALSE,
                error |-> [code |-> 500, message |-> po.message]]]

\* a bug POST could have: the catch answers without { status: 500 }
POST_status200(body, po) ==
    CASE BodyThrows(body) ->
            [status |-> 200, body |-> [success |-> FALSE,
                error |-> [code |-> 500, message |-> "Failed to generate code"]]]
      [] Falsy(body.image) ->
            [status |-> 400, body |-> [success |-> FALSE,
                error |-> [code |-> 400, message |-> "Image is required"]]]
      [] po.kind = "text" ->
            [status |-> 200, body |-> [success |-> TRUE,
                data |-> [generatedCode |-> po.text]]]
      [] OTHER ->
            [status |-> 200, body |-> [success |-> FALSE,
                error |-> [code |-> 500, message |-> "Failed to generate code"]]]

\* a bug POST could have: an empty text is taken for a failure
POST_emptyIsFailure(body, po) ==
    CASE BodyThrows(body) ->
            [status |-> 500, body |-> [success |-> FALSE,
                error |-> [code |-> 500, message |-> "Failed to generate code"]]]
      [] Falsy(body.image) ->
            [status |-> 400, body |-> [success |-> FALSE,
                error |-> [code |-> 400, message |-> "Image is required"]]]
      [] po.kind = "text" /\ po.text # "" ->
            [status |-> 200, body |-> [success |-> TRUE,
                data |-> [generatedCode |-> po.text]]]
      [] OTHER ->
            [status |-> 500, body |-> [success |-> FALSE,
                error |-> [code |-> 500, message |-> "Failed to generate code"]]]

\* a bug POST could have: a body that does not parse is answered like a
\* missing image
POST_badJsonIs400(body, po) ==
    CASE ~body.parsed ->
            [status |-> 400, body |-> [success |-> FALSE,
                error |-> [code |-> 400, message |-> "Image is required"]]]
      [] BodyThrows(body) ->
            [status |-> 500, body |-> [success |-> FALSE,
                error |-> [code |-> 500, message |-> "Failed to generate code"]]]
      [] Falsy(body.image) ->
            [status |-> 400, body |-> [success |-> FALSE,
                error |-> [code |-> 400, message |-> "Image is required"]]]
      [] po.kind = "text" ->
            [status |-> 200, body |-> [success |-> TRUE,
                data |-> [generatedCode |-> po.text]]]
      [] OTHER ->
            [status |-> 500, body |-> [success |-> FALSE,
                error |-> [code |-> 500, message |-> "Failed to generate code"]]]

\* POST(request), given what the provider call does if it is made: a body
\* that does not parse and a provider call that throws both end in the catch
POST(body, po) ==
    CASE BodyThrows(body) ->
            [status |-> 500, body |-> [success |-> FALSE,
                error |-> [code |-> 500, message |-> "Failed to generate code"]]]
      [] Falsy(body.image) ->
            [status |-> 400, body |-> [success |-> FALSE,
                error |-> [code |-> 400, message |-> "Image is required"]]]
      [] po.kind = "text" ->
            [status |-> 200, body |-> [success |-> TRUE,
                data |-> [generatedCode |-> po.text]]]
      [] OTHER ->
            [status |-> 500, body |-> [success |-> FALSE,
                error |-> [code |-> 500, message |-> "Failed to generate code"]]]

\* a bug POST could have: the image is tested after the provider call
CallsProvider_beforeTest(body) == ~BodyThrows(body)

\* POST calls the provider exactly when the body parses and carries an image
CallsProvider(body) == ~BodyThrows(body) /\ ~Falsy(body.image)

(***************************************************************************)
(* useGenerateCode.                                                        *)
(***************************************************************************)
\* convertToFileBase64(file): the base64 text of the file's bytes
convertToFileBase64(f) ==
    IF f.size = 0 THEN "" ELSE "base64:" \o f.name

\* what convertToFileBase64 can reject with
EncodeRejections ==
    { [isError |-> TRUE, message |-> "Failed to read file"],
      [isError |-> FALSE, message |-> "progress event"] }

\* what fetch and response.json() reject with
FetchRejection == [isError |-> TRUE, message |-> "Failed to fetch"]
JsonRejection == [isError |-> TRUE, message |-> "Unexpected token < in JSON"]

noBody == [parsed |-> FALSE]
noResponse == [status |-> 0]

\* JSON.stringify({ image, prompt }) as the route's request.json() reads it
RequestBody(image, p) == [parsed |-> TRUE, image |-> image, prompt |-> p]

\* what the try block ends with: the parsed result, or a thrown value
Returned(res) == [kind |-> "result", result |-> res]
Thrown(e) == [kind |-> "throw", thrown |-> e]

\* the value the catch block receives for an outcome that is not a success
Caught(o) ==
    IF o.kind = "result"
        THEN [isError |-> TRUE, message |-> o.result.error.message]
        ELSE o.thrown

\* a bug the settlement could have: the thrown value is shown as it is
settle_rawMessage(o) ==
    IF o.kind = "result" /\ o.result.success
        THEN [status |-> "success", code |-> o.result.data.generatedCode, error |-> error]
        ELSE [status |-> "error", code |-> code, error |-> Caught(o).message]

\* a bug the settlement could have: the catch block lacks setStatus('error')
settle_staysLoading(o) ==
    IF o.kind = "result" /\ o.result.success
        THEN [status |-> "success", code |-> o.result.data.generatedCode, error |-> error]
        ELSE [status |-> status, code |-> code,
              error |-> IF Caught(o).isError THEN Caught(o).message
                                             ELSE "An unknown error occurred"]

\* lines 48-57: setCode, setStatus('success'), or the catch block's
\* setError, setStatus('error')
settle(o) ==
    IF o.kind = "result" /\ o.result.success
        THEN [status |-> "success", code |-> o.result.data.generatedCode, error |-> error]
        ELSE [status |-> "error", code |-> code,
              error |-> IF Caught(o).isError THEN Caught(o).message
                                             ELSE "An unknown error occurred"]

\* status as the render after a set of setState calls sees it
Record(st) == IF st = status THEN history ELSE Append(history, st)

\* a bug generateFile could have: setStatus('loading') is missing
generateFile_noLoading(f, p) ==
    /\ Len(calls) < MaxCalls
    /\ error' = null
    /\ code' = null
    /\ UNCHANGED <<status, history>>
    /\ calls' = Append(calls, [pc |-> "encoding", file |-> f, prompt |-> p,
                              body |-> noBody, provider |-> noProvider,
                              response |-> noResponse,
                              posts |-> 0, providerCalls |-> 0])

\* generateFile(file, prompt) up to its first await
generateFile(f, p) ==
    /\ Len(calls) < MaxCalls
    /\ status' = "loading"
    /\ error' = null
    /\ code' = null
    /\ history' = Record("loading")
    /\ calls' = Append(calls, [pc |-> "encoding", file |-> f, prompt |-> p,
                              body |-> noBody, provider |-> noProvider,
                              response |-> noResponse,
                              posts |-> 0, providerCalls |-> 0])

\* an invocation that has settled holds nothing any more
doneCall == [pc |-> "done", file |-> nullFile, prompt |-> undefined,
             body |-> noBody, provider |-> noProvider, response |-> noResponse,
             posts |-> 0, providerCalls |-> 0]

\* what an asynchronous step of invocation i leaves alone
Step(op, i, o) ==
    /\ last' = [noOp EXCEPT !.op = op, !.file = calls[i].file, !.call = i,
                            !.provider = calls[i].provider, !.outcome = o]
    /\ UNCHANGED <<routeVars, arg, result, uploadVars, wsFile, prompt>>

\* a bug generateFile could have: a failed round trip is sent again
Settle_retries(i, o) ==
    IF settle(o).status = "error" /\ calls[i].posts = 1
        THEN /\ calls' = [calls EXCEPT
                            ![i].pc = "fetching",
                            ![i].body = RequestBody(convertToFileBase64(calls[i].file),
                                                    calls[i].prompt),
                            ![i].response = noResponse,
                            ![i].posts = @ + 1]
             /\ Step("retry", i, o)
             /\ UNCHANGED <<status, error, code, history>>
        ELSE /\ status' = settle(o).status
             /\ code' = settle(o).code
             /\ error' = settle(o).error
             /\ history' = Record(settle(o).status)
             /\ calls' = [calls EXCEPT ![i] = doneCall]
             /\ Step("settle", i, o)

\* the rest of generateFile for invocation i, ending with outcome o
Settle(i, o) ==
    /\ status' = settle(o).status
    /\ code' = settle(o).code
    /\ error' = settle(o).error
    /\ history' = Record(settle(o).status)
    /\ calls' = [calls EXCEPT ![i] = doneCall]
    /\ Step("settle", i, o)

\* convertToFileBase64 resolves: generate() sends the POST
EncodeResolve(i) ==
    /\ calls[i].pc = "encoding"
    /\ calls' = [calls EXCEPT ![i].pc = "fetching",
                   ![i].body = RequestBody(convertToFileBase64(calls[i].file),
                                           calls[i].prompt),
                   ![i].posts = @ + 1]
    /\ Step("fetch", i, noOutcome)
    /\ UNCHANGED <<status, error, code, history>>

\* convertToFileBase64 rejects
EncodeReject(i) ==
    /\ calls[i].pc = "encoding"
    /\ \E e \in EncodeRejections : Settle(i, Thrown(e))

\* POST for the request of invocation i, up to its await: a body that
\* throws and a missing image are answered at once, otherwise
\* generateCodeFromImage calls the provider and POST waits for it
RouteHandle(i) ==
    /\ module = "loaded"
    /\ calls[i].pc = "fetching"
    /\ calls' = [calls EXCEPT ![i] =
            IF CallsProvider(calls[i].body)
                THEN [@ EXCEPT !.pc = "calling",
                               !.providerCalls = @ + 1]
                ELSE [@ EXCEPT !.pc = "responding",
                               !.body = noBody,
                               !.response = POST(calls[i].body, noProvider)]]
    /\ last' = [noOp EXCEPT !.op = "POST", !.file = calls[i].file, !.call = i,
                            !.provider = calls[i].provider,
                            !.sent = IF CallsProvider(calls[i].body)
                                        THEN generateContentArgs(calls[i].body.image,
                                                                 calls[i].body.prompt)
                                        ELSE noSent]
    /\ UNCHANGED <<routeVars, arg, result, uploadVars, wsFile, prompt>>
    /\ UNCHANGED <<status, error, code, history>>

\* the provider call of invocation i returns text or throws, and POST answers
ProviderReturns(i) ==
    /\ calls[i].pc = "calling"
    /\ \E po \in ProviderOutcomes :
        calls' = [calls EXCEPT
                    ![i].pc = "responding",
                    ![i].body = noBody,
                    ![i].provider = po,
                    ![i].response = POST(calls[i].body, po)]
    /\ Step("answer", i, noOutcome)
    /\ UNCHANGED <<status, error, code, history>>

\* fetch rejects: the request or the response is lost
FetchFail(i) ==
    /\ calls[i].pc \in {"fetching", "calling", "responding"}
    /\ Settle(i, Thrown(FetchRejection))

\* the response arrives but its body is not JSON: response.json() rejects
ResponseNotJson(i) ==
    /\ calls[i].pc = "responding"
    /\ Settle(i, Thrown(JsonRejection))

\* the response arrives: generate() returns its parsed body
ClientReceive(i) ==
    /\ calls[i].pc = "responding"
    /\ Settle(i, Returned(calls[i].response.body))

Prompts == {"", "dark mode"}

\* the files the hook's caller passes
HookFiles == {g \in SelectableFiles : g.name \in {"test.png", "empty.png"}}

InitHook ==
    /\ arg = nullFile
    /\ result = noResult
    /\ InitUpload
    /\ InitGen
    /\ InitServer
    /\ last = noOp

\* the hook's caller invokes generateFile whenever it likes
Invoke ==
    /\ \E f \in HookFiles, p \in {undefined, "dark mode"} :
        /\ f.size = 0 => p = undefined
        /\ generateFile(f, p)
        /\ last' = [noOp EXCEPT !.op = "generateFile", !.file = f,
                                !.call = Len(calls) + 1]
    /\ UNCHANGED <<routeVars, arg, result, uploadVars, wsFile, prompt>>

NextHook ==
    \/ Invoke
    \/ \E i \in 1 .. Len(calls) : EncodeResolve(i)
    \/ \E i \in 1 .. Len(calls) : EncodeReject(i)
    \/ \E i \in 1 .. Len(calls) : RouteHandle(i)
    \/ \E i \in 1 .. Len(calls) : ProviderReturns(i)
    \/ \E i \in 1 .. Len(calls) : FetchFail(i)
    \/ \E i \in 1 .. Len(calls) : ResponseNotJson(i)
    \/ \E i \in 1 .. Len(calls) : ClientReceive(i)

SpecHook == InitHook /\ [][NextHook]_vars

(***************************************************************************)
(* The route on its own: lib/gemini loads, requests arrive, POST answers.  *)
(***************************************************************************)
\* a bug lib/gemini could have: the key is not tested
loadGemini_unchecked(key) == "loaded"

\* lib/gemini at load: if (!apiKey) throw new Error(...)
loadGemini(key) == IF Falsy(key) THEN "failed" ELSE "loaded"

\* the bodies sent to the route: text that is no JSON, null, {} and objects
\* with an empty or a real image, with and without a prompt
RouteBodies ==
    { noBody, jsonNull,
      RequestBody(undefined, undefined),
      RequestBody("", undefined),
      RequestBody("base64:test.png", undefined),
      RequestBody("base64:test.png", "dark mode") }

InitRoute ==
    /\ arg = nullFile
    /\ result = noResult
    /\ InitUpload
    /\ InitGen
    /\ apiKey \in {undefined, "", "secret"}
    /\ module = "unloaded"
    /\ reqs = <<>>
    /\ last = noOp

RouteStep(op, i) ==
    /\ last' = [noOp EXCEPT !.op = op, !.call = i]
    /\ UNCHANGED <<arg, result, uploadVars, genVars>>

\* route.ts imports lib/gemini, whose top level reads the key
LoadModule ==
    /\ module = "unloaded"
    /\ module' = loadGemini(apiKey)
    /\ RouteStep("load", 0)
    /\ UNCHANGED <<apiKey, reqs>>

\* a client sends a request
SendRequest ==
    /\ Len(reqs) < MaxRequests
    /\ \E b \in RouteBodies :
        reqs' = Append(reqs, [body |-> b, state |-> "pending", provider |-> noProvider,
                              sent |-> noSent, response |-> noResponse,
                              providerCalls |-> 0, responses |-> 0])
    /\ RouteStep("request", Len(reqs) + 1)
    /\ UNCHANGED <<apiKey, module>>

\* POST up to its await: the 400 and the caught body error are answered at
\* once, otherwise generateCodeFromImage calls the provider
RouteReceive(i) ==
    /\ module = "loaded"
    /\ reqs[i].state = "pending"
    /\ reqs' = [reqs EXCEPT ![i] =
            IF CallsProvider(reqs[i].body)
                THEN [@ EXCEPT !.state = "calling",
                               !.sent = generateContentArgs(reqs[i].body.image,
                                                            reqs[i].body.prompt),
                               !.providerCalls = @ + 1]
                ELSE [@ EXCEPT !.state = "answered",
                               !.response = POST(reqs[i].body, noProvider),
                               !.responses = @ + 1]]
    /\ RouteStep("POST", i)
    /\ UNCHANGED <<apiKey, module>>

\* the provider call returns text or throws, and POST answers
ProviderSettles(i) ==
    /\ reqs[i].state = "calling"
    /\ \E po \in ProviderOutcomes :
        reqs' = [reqs EXCEPT ![i] =
                    [@ EXCEPT !.state = "answered", !.provider = po,
                              !.response = POST(reqs[i].body, po),
                              !.responses = @ + 1]]
    /\ RouteStep("answer", i)
    /\ UNCHANGED <<apiKey, module>>

NextRoute ==
    \/ LoadModule
    \/ SendRequest
    \/ \E i \in 1 .. Len(reqs) : RouteReceive(i)
    \/ \E i \in 1 .. Len(reqs) : ProviderSettles(i)

SpecRoute == InitRoute /\ [][NextRoute]_vars

(***************************************************************************)
(* Workspace: UploadZone, PromptInput and GenerationStatus wired together. *)
(***************************************************************************)
\* PromptInput: isLoading={status === 'loading'}, hasFile = file !== null
isLoading == status = "loading"
hasFile == wsFile # nullFile

\* a bug the Generate button could have: it stays enabled while loading
ButtonDisabled_noLoading == ~hasFile

\* <Button disabled={isLoading || !hasFile}>
ButtonDisabled == isLoading \/ ~hasFile

\* a bug the prompt input could have: it is never disabled
InputDisabled_never == FALSE

\* <Input disabled={isLoading}>
InputDisabled == isLoading

\* UploadZone.onSelectFile / onFileDrop: handleFileSelect(file); onFileReady(file)
SelectFileFrom(S) ==
    \E f \in S :
        /\ handleFileSelect(f)
        /\ wsFile' = f
        /\ last' = [noOp EXCEPT !.op = "handleFileSelect", !.file = f,
                                !.prePreview = preview, !.preError = uploadError]
        /\ UNCHANGED <<routeVars, arg, result, prompt, status, error, code, calls, history>>

OnSelectFile == SelectFileFrom(SelectableFiles)

\* UploadZone.handleClear, behind the Clear button the preview branch renders
HandleClear ==
    /\ preview # null
    /\ clearFile
    /\ wsFile' = nullFile
    /\ last' = [noOp EXCEPT !.op = "clearFile",
                            !.prePreview = preview, !.preError = uploadError]
    /\ UNCHANGED <<routeVars, arg, result, prompt, status, error, code, calls, history>>

\* PromptInput.handlePromptChange, on an input that is not disabled
HandlePromptChange ==
    /\ ~InputDisabled
    /\ \E p \in Prompts : prompt' = p /\ p # prompt
    /\ last' = [noOp EXCEPT !.op = "handlePromptChange"]
    /\ UNCHANGED <<routeVars, arg, result, uploadVars, wsFile, status, error, code, calls, history>>

\* PromptInput.handleGenerate, on a button that is not disabled:
\* if(file) onGenerate(file, prompt || undefined)
HandleGenerate ==
    /\ ~ButtonDisabled
    /\ wsFile # nullFile
    /\ generateFile(wsFile, IF prompt = "" THEN undefined ELSE prompt)
    /\ last' = [noOp EXCEPT !.op = "generateFile", !.file = wsFile,
                            !.call = Len(calls) + 1]
    /\ UNCHANGED <<routeVars, arg, result, uploadVars, wsFile, prompt>>

Init == InitHook

Next ==
    \/ OnSelectFile
    \/ HandleClear
    \/ HandlePromptChange
    \/ HandleGenerate
    \/ \E i \in 1 .. Len(calls) : EncodeResolve(i)
    \/ \E i \in 1 .. Len(calls) : EncodeReject(i)
    \/ \E i \in 1 .. Len(calls) : RouteHandle(i)
    \/ \E i \in 1 .. Len(calls) : ProviderReturns(i)
    \/ \E i \in 1 .. Len(calls) : FetchFail(i)
    \/ \E i \in 1 .. Len(calls) : ResponseNotJson(i)
    \/ \E i \in 1 .. Len(calls) : ClientReceive(i)

Spec == Init /\ [][Next]_vars

\* the awaited promises of invocation i settle: convertToFileBase64 resolves
\* or rejects, and the fetch with its response.json() resolves or rejects
EncodingSettles(i) ==
    i \in 1 .. Len(calls) /\ (EncodeResolve(i) \/ EncodeReject(i))
RoundTripSettles(i) ==
    /\ i \in 1 .. Len(calls)
    /\ \/ RouteHandle(i) \/ ProviderReturns(i)
       \/ FetchFail(i) \/ ResponseNotJson(i) \/ ClientReceive(i)

\* every awaited promise settles
Fairness ==
    \A i \in 1 .. MaxCalls :
        WF_vars(EncodingSettles(i)) /\ WF_vars(RoundTripSettles(i))

\* the Workspace with an accepted and a rejected file to select, and every
\* awaited promise settling
LiveFiles == {g \in SelectableFiles : g.name \in {"test.png", "notes.txt"}}

OnSelectLiveFile == SelectFileFrom(LiveFiles)

NextLive ==
    \/ OnSelectLiveFile
    \/ HandleClear
    \/ HandlePromptChange
    \/ HandleGenerate
    \/ \E i \in 1 .. Len(calls) : EncodeResolve(i)
    \/ \E i \in 1 .. Len(calls) : EncodeReject(i)
    \/ \E i \in 1 .. Len(calls) : RouteHandle(i)
    \/ \E i \in 1 .. Len(calls) : ProviderReturns(i)
    \/ \E i \in 1 .. Len(calls) : FetchFail(i)
    \/ \E i \in 1 .. Len(calls) : ResponseNotJson(i)
    \/ \E i \in 1 .. Len(calls) : ClientReceive(i)

LiveSpec == Init /\ [][NextLive]_vars /\ Fairness

(***************************************************************************)
(* Claims about useGenerateCode (SpecHook) and the Workspace (Spec).       *)
(***************************************************************************)
AllowedStatusChanges ==
    { <<"idle", "loading">>, <<"loading", "success">>, <<"loading", "error">>,
      <<"success", "loading">>, <<"error", "loading">> }

\* C1: for any sequence of generateFile invocations and settlements, the
\* overlapping ones included, status changes only along idle->loading,
\* loading->success, loading->error, success->loading and error->loading.
C1_StatusChangesOnlyAlongMachine ==
    [][status' # status => <<status, status'>> \in AllowedStatusChanges]_vars

AllSettled == calls # <<>> /\ \A i \in 1 .. Len(calls) : calls[i].pc = "done"

\* what one invocation on its own writes: null, null at its start and then
\* code and success, or error and error
WrittenBy(o) ==
    IF o.kind = "result" /\ o.result.success
        THEN <<"success", o.result.data.generatedCode, null>>
        ELSE <<"error", null, settle(o).error>>

\* C2: when invocations of generateFile overlap, the status, code and error
\* left once all have settled are those written by the invocation that
\* settled last.
C2_LastSettlerWritesAll ==
    (AllSettled /\ last.op = "settle") => <<status, code, error>> = WrittenBy(last.outcome)

\* C3: a settlement with a success envelope sets code to its generatedCode
\* and status to success; one with a failure envelope or a thrown error sets
\* error to the envelope's or the exception's message ('An unknown error
\* occurred' for a thrown value that is no Error) and status to error.
C3_SettlementWrites ==
    [][last'.op = "settle" =>
        LET o == last'.outcome IN
        CASE o.kind = "result" /\ o.result.success ->
                code' = o.result.data.generatedCode /\ status' = "success"
          [] o.kind = "result" /\ ~o.result.success ->
                error' = o.result.error.message /\ status' = "error"
          [] o.kind = "throw" /\ o.thrown.isError ->
                error' = o.thrown.message /\ status' = "error"
          [] OTHER ->
                error' = "An unknown error occurred" /\ status' = "error"]_vars

C3_Witness ==
    /\ last.op = "settle"
    /\ last.outcome.kind = "throw"
    /\ ~last.outcome.thrown.isError
    /\ status = "error"
    /\ error = "An unknown error occurred"

ValidSmallPng(f) ==
    f # nullFile /\ f.type = "image/png" /\ f.size > 0 /\ validateFile(f).valid

SingleGenerationHistories ==
    { <<"idle">>, <<"idle", "loading">>,
      <<"idle", "loading", "success">>, <<"idle", "loading", "error">> }

\* the one generation settles, for a valid small PNG
C4_Settles == Len(calls') = 1 /\ last'.op = "settle" /\ ValidSmallPng(last'.file)

\* C4 as claimed: from status idle with a valid small PNG uploaded, one
\* generation passes through exactly idle -> loading -> success with code
\* non-null when the provider call returns text, or exactly idle -> loading
\* -> error with error non-null when the provider call rejects; a single
\* generation has no other status sequence.
C4_ProviderTextGivesSuccess ==
    /\ [](Len(calls) <= 1 => history \in SingleGenerationHistories)
    /\ [][C4_Settles =>
            /\ last'.provider.kind = "text"
                => /\ history' = <<"idle", "loading", "success">>
                   /\ code' # null
            /\ last'.provider.kind = "throw"
                => /\ history' = <<"idle", "loading", "error">>
                   /\ error' # null
            /\ history' \in { <<"idle", "loading", "success">>,
                              <<"idle", "loading", "error">> }]_vars

\* C4 as amended: one generation passes through exactly idle -> loading ->
\* success, with code the provider's text, when the provider call returns
\* text and the route's answer reaches the hook and parses; it passes
\* through exactly idle -> loading -> error with error non-null when the
\* provider call rejects, and also when the provider returned text but the
\* fetch or response.json() rejected; a single generation has no other
\* status sequence.
C4_EndToEnd ==
    /\ [](Len(calls) <= 1 => history \in SingleGenerationHistories)
    /\ [][C4_Settles =>
            /\ (last'.provider.kind = "text" /\ last'.outcome.kind = "result")
                => /\ history' = <<"idle", "loading", "success">>
                   /\ code' = last'.provider.text
                   /\ code' # null
            /\ (last'.provider.kind = "text" /\ last'.outcome.kind = "throw")
                => /\ history' = <<"idle", "loading", "error">>
                   /\ error' = last'.outcome.thrown.message
                   /\ error' \in {"Failed to fetch", "Unexpected token < in JSON"}
                   /\ code' = null
            /\ last'.provider.kind = "throw"
                => /\ history' = <<"idle", "loading", "error">>
                   /\ error' # null
            /\ history' \in { <<"idle", "loading", "success">>,
                              <<"idle", "loading", "error">> }
            /\ status' = "success" => code' # null
            /\ status' = "error" => error' # null]_vars

C4_Witness ==
    /\ Len(calls) = 1
    /\ last.op = "settle"
    /\ last.file.name = "test.png"
    /\ last.provider.kind = "text"
    /\ history = <<"idle", "loading", "success">>
    /\ code = last.provider.text
    /\ file # nullFile

\* a step that sends a POST for invocation i
SendsPost(i) == calls'[i].posts > calls[i].posts

\* C17: nothing is retried: each invocation of generateFile sends at most
\* one POST, and only as the continuation of its encoding; each request
\* makes at most one provider call; once a generation has ended in error and
\* nothing is in flight, no request is sent until generateFile is invoked
\* again.
C17_NothingIsRetried ==
    /\ [](\A i \in 1 .. Len(calls) :
            /\ calls[i].posts <= 1
            /\ calls[i].providerCalls <= calls[i].posts
            /\ calls[i].pc \in {"fetching", "calling", "responding"} => calls[i].posts = 1)
    /\ [][\A i \in 1 .. Len(calls) :
            SendsPost(i) => calls[i].pc = "encoding" /\ calls[i].posts = 0]_vars
    /\ [][(AllSettled /\ status = "error" /\ calls' # calls)
            => /\ last'.op = "generateFile"
               /\ Len(calls') = Len(calls) + 1
               /\ calls'[Len(calls')].posts = 0]_vars

C17_Witness ==
    /\ AllSettled
    /\ Len(calls) = MaxCalls
    /\ status = "error"
    /\ last.op = "settle"
    /\ last.provider.kind = "throw"
    /\ last.outcome.kind = "result"
    /\ error = "Failed to generate code"

\* the last step settled a generation as a failure
FailedSettle == last.op = "settle" /\ status = "error"

\* the failure's cause: the fetch, the provider behind the route, the
\* response's JSON
NetworkFailure == last.outcome = Thrown(FetchRejection)
ProviderFailure == last.outcome.kind = "result" /\ last.provider.kind = "throw"
MalformedResponse == last.outcome = Thrown(JsonRejection)

\* C16 as claimed: every generation failure stores the same generic
\* message, whether the cause is a network failure of the fetch, a provider
\* error behind the route or a malformed response.
C16_SingleGenericMessage ==
    (FailedSettle /\ (NetworkFailure \/ ProviderFailure \/ MalformedResponse))
        => error = "Failed to generate code"

\* C16 as amended: the error stored is the message of what was thrown: the
\* route's fixed 'Failed to generate code' for every provider error, the
\* route's 'Image is required' for its 400, and the rejection's own message
\* for a failed fetch or a response that is no JSON.
C16_MessageFollowsCause ==
    FailedSettle =>
        /\ ProviderFailure => error = "Failed to generate code"
        /\ NetworkFailure => error = "Failed to fetch"
        /\ MalformedResponse => error = "Unexpected token < in JSON"
        /\ (last.outcome.kind = "result" /\ last.provider.kind = "none")
            => error = "Image is required"
        /\ (NetworkFailure \/ MalformedResponse) => error # "Failed to generate code"

C16_Witness ==
    /\ FailedSettle
    /\ NetworkFailure
    /\ last.provider.kind = "throw"
    /\ error = "Failed to fetch"

\* C18: the clear operation sets the upload hook's file and preview to null
\* and leaves its error unchanged; through the Clear button the Workspace's
\* file becomes null too, so the Generate button is disabled after Clear.
C18_ClearNullsFileKeepsError ==
    [][last'.op = "clearFile"
        => /\ file' = nullFile
           /\ preview' = null
           /\ uploadError' = uploadError
           /\ wsFile' = nullFile
           /\ ButtonDisabled']_vars

C18_Witness ==
    /\ last.op = "clearFile"
    /\ last.prePreview # null
    /\ last.preError # null
    /\ uploadError = last.preError
    /\ file = nullFile
    /\ preview = null
    /\ wsFile = nullFile

\* C20: every file the Workspace hands to generation has passed
\* validateFile: the Workspace's file is null or the upload hook's accepted
\* file, and no invocation is made for a file of a disallowed type or over
\* 10MB.
C20_WorkspaceFileIsValidated ==
    /\ wsFile # nullFile => (wsFile = file /\ validateFile(wsFile).valid)
    /\ \A i \in 1 .. Len(calls) :
        calls[i].pc # "done" => validateFile(calls[i].file).valid

\* C21: the generation state is a tagged union in every reachable state,
\* for any interleaving of generateFile invocations and settlements: status
\* success implies code non-null and error null; status error implies error
\* non-null and code null; status idle or loading implies both null.
C21_TaggedUnion ==
    /\ status = "success" => (code # null /\ error = null)
    /\ status = "error" => (error # null /\ code = null)
    /\ status \in {"idle", "loading"} => (code = null /\ error = null)

\* the invocations of generateFile that have not settled
InFlight == {i \in 1 .. Len(calls) : calls[i].pc # "done"}

\* C22: through the Workspace at most one generation is in flight at any
\* time: the Generate button is disabled from the invocation until its
\* settlement, and a generation (its HTTP request with it) is in flight
\* exactly when status is loading.
C22_OneInFlight ==
    /\ Cardinality(InFlight) <= 1
    /\ InFlight # {} <=> status = "loading"
    /\ InFlight # {} => ButtonDisabled
    /\ \A i \in 1 .. Len(calls) :
        calls[i].pc \in {"fetching", "calling", "responding"} => status = "loading"

C22_Witness ==
    /\ Len(calls) = 2
    /\ calls[1].pc = "done"
    /\ calls[2].pc = "responding"
    /\ InFlight = {2}
    /\ status = "loading"
    /\ hasFile
    /\ ButtonDisabled

\* C23: whenever status is loading it eventually becomes success or error:
\* provided the encoding and the HTTP round trip of each invocation settle,
\* no invocation of generateFile leaves the status loading forever, and
\* upload or clear actions in between do not prevent this.
C23_LoadingSettles ==
    (status = "loading") ~> (status \in {"success", "error"})

\* a generation settled although the file was cleared while it was loading
C23_Witness ==
    /\ Len(calls) = 1
    /\ last.op = "settle"
    /\ status \in {"success", "error"}
    /\ wsFile = nullFile
    /\ file = nullFile
    /\ InFlight = {}

\* C24: the Generate button is enabled exactly when the Workspace's file is
\* non-null and status is not loading, and handleGenerate never calls
\* onGenerate with a null file; the prompt input is disabled exactly when
\* status is loading (so the prompt does not change while loading).
C24_ControlsFollowState ==
    /\ [](~ButtonDisabled <=> (wsFile # nullFile /\ status # "loading"))
    /\ [](InputDisabled <=> status = "loading")
    /\ [][last'.op = "generateFile"
            => /\ wsFile # nullFile /\ status # "loading"
               /\ last'.file = wsFile
               /\ calls'[Len(calls')].file # nullFile]_vars
    /\ [][prompt' # prompt => status # "loading"]_vars

C24_Witness ==
    /\ last.op = "generateFile"
    /\ last.file = wsFile
    /\ hasFile
    /\ prompt = "dark mode"
    /\ calls[Len(calls)].prompt = "dark mode"
    /\ ButtonDisabled
    /\ InputDisabled

\* the last step was the route handing a prompt and an image to the model
SentToModel == last.op = "POST" /\ last.sent # noSent

\* the messages buildPrompt is given: none, the empty one, a real one
Messages == {undefined} \cup Prompts

\* C28: buildPrompt returns exactly BASE_PROMPT when the message is absent
\* or empty and BASE_PROMPT, one space and the message otherwise, so
\* BASE_PROMPT is a prefix of every prompt sent to the model; an empty prompt
\* input in the UI is sent as an absent prompt and yields exactly BASE_PROMPT.
C28_PromptIsBasePlusMessage ==
    /\ \A m \in Messages :
        buildPrompt(m) = IF m = undefined \/ m = "" THEN BASE_PROMPT
                                                   ELSE BASE_PROMPT \o " " \o m
    /\ last.op = "generateFile" =>
        calls[last.call].prompt = IF prompt = "" THEN undefined ELSE prompt
    /\ SentToModel =>
        /\ last.sent.prompt \in {BASE_PROMPT} \cup {BASE_PROMPT \o " " \o m : m \in Prompts \ {""}}
        /\ prompt = "" => last.sent.prompt = BASE_PROMPT
        /\ prompt # "" => last.sent.prompt = BASE_PROMPT \o " " \o prompt

C28_Witness ==
    /\ SentToModel
    /\ prompt = ""
    /\ calls[last.call].prompt = undefined
    /\ last.sent.prompt = BASE_PROMPT
    /\ Len(calls) = 2

\* C29: the image part handed to the model is labelled image/png for every
\* request, whatever the type of the uploaded file (image/png, image/jpeg or
\* image/webp), and carries the file's base64 text.
C29_ImageIsLabelledPng ==
    SentToModel =>
        /\ last.sent.inlineData.mimeType = "image/png"
        /\ last.sent.inlineData.data = convertToFileBase64(last.file)

C29_Witness ==
    /\ SentToModel
    /\ last.file.type = "image/webp"
    /\ validateFile(last.file).valid
    /\ last.sent.inlineData.mimeType = "image/png"

(***************************************************************************)
(* Claims about the route (SpecRoute).                                     *)
(***************************************************************************)
Answered(i) == reqs[i].state = "answered"
ImageMissing(b) == ~BodyThrows(b) /\ Falsy(b.image)

\* C11: a request whose body has no image field, or a falsy one such as the
\* empty string, is answered with HTTP 400 and the envelope {success:false,
\* error:{code:400, message:'Image is required'}}, and the AI client wrapper
\* is not called for it.
C11_MissingImageIs400 ==
    \A i \in 1 .. Len(reqs) :
        ImageMissing(reqs[i].body) =>
            /\ reqs[i].providerCalls = 0
            /\ reqs[i].state # "calling"
            /\ Answered(i) =>
                reqs[i].response =
                    [status |-> 400,
                     body |-> [success |-> FALSE,
                               error |-> [code |-> 400, message |-> "Image is required"]]]

C11_Witness ==
    \E i, j \in 1 .. Len(reqs) :
        /\ Answered(i) /\ reqs[i].body = RequestBody(undefined, undefined)
        /\ Answered(j) /\ reqs[j].body = RequestBody("", undefined)
        /\ reqs[i].response.status = 400
        /\ reqs[j].response.status = 400

\* C12: when the AI client call throws for a request that carries an image,
\* the route answers with HTTP 500 and a success:false envelope whose
\* error.code is 500; the exception does not leave the handler unanswered.
C12_ProviderThrowIs500 ==
    \A i \in 1 .. Len(reqs) :
        (Answered(i) /\ reqs[i].provider.kind = "throw") =>
            /\ reqs[i].responses = 1
            /\ reqs[i].response.status = 500
            /\ reqs[i].response.body.success = FALSE
            /\ reqs[i].response.body.error.code = 500

C12_Witness ==
    \E i \in 1 .. Len(reqs) :
        /\ Answered(i)
        /\ reqs[i].provider = [kind |-> "throw", message |-> "quota exceeded"]
        /\ reqs[i].body.image = "base64:test.png"
        /\ reqs[i].providerCalls = 1
        /\ reqs[i].response.status = 500

\* C13: the message of the 500 envelope is the fixed string 'Failed to
\* generate code' whatever the provider call throws, so two requests that
\* differ only in the thrown exception's message get identical responses.
C13_NoProviderTextInResponse ==
    \A i, j \in 1 .. Len(reqs) :
        (/\ Answered(i) /\ reqs[i].provider.kind = "throw"
         /\ Answered(j) /\ reqs[j].provider.kind = "throw"
         /\ reqs[i].body = reqs[j].body)
            => /\ reqs[i].response = reqs[j].response
               /\ reqs[i].response.body.error.message = "Failed to generate code"

C13_Witness ==
    \E i, j \in 1 .. Len(reqs) :
        /\ Answered(i) /\ Answered(j)
        /\ reqs[i].body = reqs[j].body
        /\ reqs[i].provider = [kind |-> "throw", message |-> "quota exceeded"]
        /\ reqs[j].provider = [kind |-> "throw", message |-> "socket hang up"]
        /\ reqs[i].response = reqs[j].response

\* C14: for a request with an image whose provider call returns text t the
\* route answers HTTP 200 with {success:true, data:{generatedCode:t}}, t
\* unmodified, the empty string included.
C14_TextIsRelayed ==
    \A i \in 1 .. Len(reqs) :
        (Answered(i) /\ reqs[i].provider.kind = "text") =>
            reqs[i].response =
                [status |-> 200,
                 body |-> [success |-> TRUE,
                           data |-> [generatedCode |-> reqs[i].provider.text]]]

C14_Witness ==
    \E i, j \in 1 .. Len(reqs) :
        /\ Answered(i) /\ reqs[i].provider = [kind |-> "text", text |-> ""]
        /\ reqs[i].response.body.data.generatedCode = ""
        /\ Answered(j) /\ reqs[j].provider = [kind |-> "text", text |-> "<A/>"]
        /\ reqs[j].response.body.data.generatedCode = "<A/>"

\* C15: every request the route handles gets exactly one response, and the
\* envelope agrees with the HTTP status: 200 carries success:true, a
\* success:false envelope carries error.code equal to the status, which is
\* 400 only for a missing image and 500 only for a failure (something thrown
\* in the handler: the body or the provider call).
C15_EnvelopeAgreesWithStatus ==
    \A i \in 1 .. Len(reqs) :
        LET r == reqs[i].response IN
        /\ reqs[i].responses = IF Answered(i) THEN 1 ELSE 0
        /\ Answered(i) =>
            /\ r.status \in {200, 400, 500}
            /\ r.status = 200 <=> r.body.success
            /\ ~r.body.success => r.body.error.code = r.status
            /\ r.status = 400 => ImageMissing(reqs[i].body)
            /\ r.status = 500 =>
                (BodyThrows(reqs[i].body) \/ reqs[i].provider.kind = "throw")

C15_Witness ==
    \E i, j \in 1 .. Len(reqs) :
        /\ Answered(i) /\ reqs[i].response.status = 500 /\ reqs[i].body = jsonNull
        /\ Answered(j) /\ reqs[j].response.status = 200
        /\ reqs[i].responses = 1 /\ reqs[j].responses = 1

\* C19: with the API key absent or empty when lib/gemini loads, loading
\* fails and no call to the provider is ever made; no other error is fatal:
\* the module fails to load for no other reason and every request a loaded
\* route handles is answered with an envelope.
C19_MissingKeyIsFatal ==
    /\ Falsy(apiKey) =>
        /\ module \in {"unloaded", "failed"}
        /\ \A i \in 1 .. Len(reqs) :
            reqs[i].providerCalls = 0 /\ reqs[i].state = "pending"
    /\ module = "failed" => Falsy(apiKey)
    /\ ~Falsy(apiKey) => module \in {"unloaded", "loaded"}
    /\ \A i \in 1 .. Len(reqs) :
        Answered(i) => reqs[i].response.body.success \in BOOLEAN

C19_Witness ==
    /\ apiKey = undefined
    /\ module = "failed"
    /\ Len(reqs) = MaxRequests
    /\ \A i \in 1 .. Len(reqs) : reqs[i].state = "pending"

\* C25: a request whose body cannot be parsed as JSON is answered with the
\* HTTP 500 failure envelope, not with 400, and the AI client wrapper is not
\* called for it.
C25_UnparsableBodyIs500 ==
    \A i \in 1 .. Len(reqs) :
        ~reqs[i].body.parsed =>
            /\ reqs[i].providerCalls = 0
            /\ reqs[i].state # "calling"
            /\ reqs[i].provider = noProvider
            /\ Answered(i) =>
                /\ reqs[i].response.status # 400
                /\ reqs[i].response =
                    [status |-> 500,
                     body |-> [success |-> FALSE,
                               error |-> [code |-> 500,
                                          message |-> "Failed to generate code"]]]

C25_Witness ==
    \E i \in 1 .. Len(reqs) :
        /\ reqs[i].body = noBody
        /\ Answered(i)
        /\ reqs[i].response.status = 500
        /\ reqs[i].responses = 1
        /\ reqs[i].providerCalls = 0

(***************************************************************************)
(* Claims about validateFile (SpecValidate).                               *)
(***************************************************************************)
Validated == result # noResult

\* C5: every file whose MIME type is not image/png, image/jpeg or image/webp
\* is invalid with the message 'File must be an image (png, jpg, webp)',
\* whatever its size, over 10MB included.
C5_DisallowedTypeGetsTypeMessage ==
    (Validated /\ arg.type \notin {"image/png", "image/jpeg", "image/webp"})
        => result = [valid |-> FALSE, error |-> "File must be an image (png, jpg, webp)"]

C5_Witness ==
    /\ Validated
    /\ arg.type = "text/plain"
    /\ arg.size > 10 * 1024 * 1024
    /\ result.error = "File must be an image (png, jpg, webp)"

\* C6: every file whose size is greater than 10*1024*1024 bytes is invalid,
\* whatever its MIME type.
C6_OversizeIsInvalid ==
    (Validated /\ arg.size > 10 * 1024 * 1024) => result.valid = FALSE

C6_Witness ==
    /\ Validated
    /\ arg.type = "image/png"
    /\ arg.size = 10 * 1024 * 1024 + 1
    /\ result.valid = FALSE

\* C7: every file of an allowed MIME type whose size is at most 10MB is
\* valid, a size of exactly 10*1024*1024 and a size of 0 included.
C7_AllowedSmallIsValid ==
    (/\ Validated
     /\ arg.type \in {"image/png", "image/jpeg", "image/webp"}
     /\ arg.size <= 10 * 1024 * 1024)
        => result = [valid |-> TRUE]

C7_Witness ==
    /\ Validated
    /\ arg.type = "image/webp"
    /\ arg.size = 10 * 1024 * 1024
    /\ result = [valid |-> TRUE]

(***************************************************************************)
(* Claims about useFileUpload (SpecUpload).                                *)
(***************************************************************************)
SelectedValid == last.op = "handleFileSelect" /\ validateFile(last.file).valid
SelectedInvalid == last.op = "handleFileSelect" /\ ~validateFile(last.file).valid

\* C8: handleFileSelect with a valid file while a previous valid file is
\* installed sets file to the new file and preview to a newly created object
\* URL, revokes the previous preview URL and sets error to null.
C8_ReplaceInstallsAndRevokes ==
    [][(SelectedValid' /\ file # nullFile)
        => /\ file' = last'.file
           /\ preview' \notin created \cup {null}
           /\ preview' \in created' \ revoked'
           /\ preview \in revoked' \ revoked
           /\ uploadError' = null]_vars

C8_Witness ==
    /\ SelectedValid
    /\ last.prePreview # null
    /\ last.preError # null
    /\ file = last.file
    /\ last.prePreview \in revoked
    /\ preview # last.prePreview
    /\ uploadError = null

\* C9: handleFileSelect with a file that fails validation sets error to the
\* validator's message and leaves file and preview unchanged; no object URL
\* is created and none is revoked.
C9_RejectedLeavesSelection ==
    [][SelectedInvalid'
        => /\ uploadError' = validateFile(last'.file).error
           /\ uploadError' \in {"File must be an image (png, jpg, webp)",
                                "File must be under 10MB"}
           /\ UNCHANGED <<file, preview, created, revoked>>]_vars

C9_Witness ==
    /\ SelectedInvalid
    /\ file # nullFile
    /\ preview = last.prePreview
    /\ preview # null
    /\ last.preError = null
    /\ uploadError = "File must be under 10MB"

\* C10: after any sequence of handleFileSelect and clearFile calls the
\* object URLs created and not yet revoked are at most the current preview
\* (none when preview is null).
C10_NoLeakedObjectURL == (created \ revoked) \subseteq ({preview} \ {null})

\* C26: revokeObjectURL is only ever called on a URL that createObjectURL
\* returned earlier and that has not been revoked before, and the preview
\* held after any handleFileSelect or clearFile call is never a revoked URL.
C26_RevokeOnlyLiveURLs ==
    /\ [](preview # null => preview \in created \ revoked)
    /\ [](revoked \subseteq created)
    /\ [][(SelectedValid' /\ preview # null)
            => /\ preview \in created \ revoked
               /\ revoked' = revoked \cup {preview}]_vars
    /\ [][revoked' # revoked
            => /\ SelectedValid'
               /\ revoked' = revoked \cup {preview}
               /\ preview \in created \ revoked]_vars

C26_Witness ==
    /\ SelectedValid
    /\ last.prePreview \in revoked
    /\ Cardinality(revoked) = 2
    /\ preview \in created \ revoked

\* C27: in the upload state holder file is null exactly when preview is
\* null, after any sequence of handleFileSelect calls (valid or invalid) and
\* clearFile calls, and a non-null file is one that passed validateFile.
C27_FileAndPreviewTogether ==
    /\ file = nullFile <=> preview = null
    /\ file # nullFile => validateFile(file) = [valid |-> TRUE]

\* a rejected file, selected after a clear, left both null
C27_Witness ==
    /\ SelectedInvalid
    /\ created # {}
    /\ file = nullFile
    /\ preview = null
    /\ uploadError # null

====
